---- MODULE Spec2Model ----
(***************************************************************************)
(* resource-advisor: one analysis pass of Run (pkg/advisor/main.go) over a *)
(* cluster snapshot.  The cluster (deployments, replica sets, pods and the *)
(* usage statistics the metrics backend holds for each pod) is chosen in   *)
(* Init and never changes; every upstream call may succeed or fail.        *)
(*                                                                         *)
(* Units.  CPU quantities of container specs are in millicores, so the     *)
(* float64 "cores" of the code is value/1000.  Memory quantities are in    *)
(* units of 64 bytes (MiB = 16384 units, 10^6 bytes = 15625 units), which  *)
(* keeps the byte arithmetic of currentValue exact inside 32-bit integers. *)
(* Metric samples are in tenths of a millicore and tenths of a MiB, so the *)
(* limit queries' "* 1.2" is exact.  Averages are kept as exact fractions. *)
(* The float64 product of int(x * 1000) is computed bit for bit.           *)
(***************************************************************************)
EXTENDS Integers, Sequences, FiniteSets, TLC

\* ---- bounds of the model ----
MaxNamespaces == 2        \* namespaces named by the namespace argument
MaxDeployments == 2       \* deployments of the cluster

\* ---- units ----
MiB == 16384              \* 1024 * 1024 bytes, in units of 64 bytes
MilliPerCore == 1000
SampleScale == 10         \* sample units per millicore, and per MiB

\* ---- constants of the program ----
deploymentRevision == "deployment.kubernetes.io/revision"
LimitFactorTimes10 == 12  \* the "* 1.2" of podCPULimit and podMemoryLimit
CPUScale == 10            \* scale := 10 in Run
MemBucket == 100          \* the /100 ... *100 of Run
MemSavingFactor == 15625  \* current * 1000 * 1000 bytes, in units of 64 bytes
MantissaBits == 53        \* float64
LimbBits == 15            \* bits of one digit of the float64 arithmetic below

Nil == "<nil>"
NoError == "nil"

\* ---- sequences ----
RECURSIVE SumSeq(_)
SumSeq(s) == IF s = <<>> THEN 0 ELSE Head(s) + SumSeq(Tail(s))

RECURSIVE Flatten(_)
Flatten(ss) == IF ss = <<>> THEN <<>> ELSE Head(ss) \o Flatten(Tail(ss))

Range(s) == {s[i] : i \in DOMAIN s}

CeilDiv(a, b) == (a + b - 1) \div b

\* ---- float64: the product of int(x * 1000) ----
\* a big natural is the sequence of its digits in base 2^LimbBits, the most
\* significant first
RECURSIVE Pow2(_)
Pow2(n) == IF n <= 0 THEN 1 ELSE 2 * Pow2(n - 1)

LimbBase == Pow2(LimbBits)

RECURSIVE BitLen(_)
BitLen(n) == IF n = 0 THEN 0 ELSE 1 + BitLen(n \div 2)

RECURSIVE Digits(_)
Digits(n) == IF n = 0 THEN <<>> ELSE Append(Digits(n \div LimbBase), n % LimbBase)

RECURSIVE Zeros(_)
Zeros(n) == IF n <= 0 THEN <<>> ELSE <<0>> \o Zeros(n - 1)

RECURSIVE Strip(_)
Strip(b) == IF b # <<>> /\ Head(b) = 0 THEN Strip(Tail(b)) ELSE b

RECURSIVE DigitsToInt(_)
DigitsToInt(b) == IF b = <<>> THEN 0 ELSE LimbBase * DigitsToInt(SubSeq(b, 1, Len(b) - 1)) + b[Len(b)]

BigBitLen(b) == IF b = <<>> THEN 0 ELSE LimbBits * (Len(b) - 1) + BitLen(Head(b))

\* long division of the big natural b by the small natural d
RECURSIVE DivSmallFrom(_, _, _, _, _)
DivSmallFrom(b, d, i, q, r) ==
    IF i > Len(b) THEN [q |-> Strip(q), r |-> r]
    ELSE LET t == LimbBase * r + b[i]
         IN  DivSmallFrom(b, d, i + 1, Append(q, t \div d), t % d)

DivSmall(b, d) == DivSmallFrom(b, d, 1, <<>>, 0)

\* product of the big natural b by the small natural c
RECURSIVE MulSmallFrom(_, _, _, _, _)
MulSmallFrom(b, c, i, carry, out) ==
    IF i = 0 THEN Strip(Digits(carry) \o out)
    ELSE LET t == b[i] * c + carry
         IN  MulSmallFrom(b, c, i - 1, t \div LimbBase, <<t % LimbBase>> \o out)

MulSmall(b, c) == MulSmallFrom(b, c, Len(b), 0, <<>>)

RECURSIVE IncFrom(_, _)
IncFrom(b, i) ==
    IF i = 0 THEN <<1>> \o b
    ELSE IF b[i] < LimbBase - 1 THEN [b EXCEPT ![i] = @ + 1]
    ELSE IncFrom([b EXCEPT ![i] = 0], i - 1)

Inc(b) == IncFrom(b, Len(b))

\* b * 2^n and the whole part of b / 2^n
ShiftLeft(b, n) == MulSmall(b, Pow2(n % LimbBits)) \o Zeros(n \div LimbBits)
ShiftRight(b, n) == DivSmall(SubSeq(b, 1, Len(b) - (n \div LimbBits)), Pow2(n % LimbBits)).q

\* b / 2^d for 0 < d < LimbBits, rounded to nearest, ties to even
RoundShift(b, d) ==
    LET x    == DivSmall(b, Pow2(d))
        half == Pow2(d - 1)
        odd  == x.q # <<>> /\ x.q[Len(x.q)] % 2 = 1
    IN  IF x.r > half \/ (x.r = half /\ odd) THEN Inc(x.q) ELSE x.q

\* the float64 math.Ceil(value*scale) / scale for the integer k = Ceil(value*scale), k > 0:
\* mantissa m and binary scale s, the float's value being m / 2^s
Float64Div10(k) ==
    LET Try(s) == LET x  == DivSmall(ShiftLeft(Digits(k), s), CPUScale)
                      up == 2 * x.r > CPUScale \/ (2 * x.r = CPUScale /\ x.q[Len(x.q)] % 2 = 1)
                  IN  IF up THEN Inc(x.q) ELSE x.q
        s1 == MantissaBits + 4 - BitLen(k)
        m1 == Try(s1)
    IN  IF BigBitLen(m1) = MantissaBits THEN [m |-> m1, s |-> s1]
        ELSE IF BigBitLen(m1) > MantissaBits THEN [m |-> Try(s1 - 1), s |-> s1 - 1]
        ELSE [m |-> Try(s1 + 1), s |-> s1 + 1]

\* int(f * 1000) for the float64 f = m / 2^s: the product is rounded to a
\* float64 and the conversion to int drops its fraction
IntOfTimes1000(f) ==
    LET p  == MulSmall(f.m, MilliPerCore)
        d  == BigBitLen(p) - MantissaBits
        m2 == RoundShift(p, d)
    IN  DigitsToInt(ShiftRight(m2, f.s - d))

\* ---- the cluster snapshot ----
ClusterNamespaces == <<"a", "b">>
\* what the namespace argument may name between its commas
NamespaceNames == {"a", "b", ""}

NoResources == [r \in {} |-> 0]
DecimalSI == "DecimalSI"
BinarySI == "BinarySI"
ResourceCPU == "cpu"
ResourceMemory == "memory"

Container(name, requests, limits) ==
    [name |-> name, resources |-> [Requests |-> requests, Limits |-> limits]]

Usage(cpuAvg, cpuMax, memAvg, memMax) ==
    [cpuAvg |-> cpuAvg, cpuMax |-> cpuMax, memAvg |-> memAvg, memMax |-> memMax]

ReplicaSetObj(name, app, hash, annotations) ==
    [name |-> name, labels |-> {app, hash}, annotations |-> annotations, selector |-> {app, hash}]

PodObj(name, app, hash, containers, usage) ==
    [name |-> name, labels |-> {app, hash}, containers |-> containers, usage |-> usage]

DeploymentObj(name, revision, replicas, containers) ==
    [name |-> name, revision |-> revision, replicas |-> replicas,
     selector |-> {"app=" \o name}, containers |-> containers]

Revision(r) == deploymentRevision :> r

\* api: no requests and no limits configured; a straggler pod of revision 1
ApiContainers == <<Container("web", NoResources, NoResources)>>
Api ==
    [deployment  |-> DeploymentObj("api", 2, 3, ApiContainers),
     replicasets |-> <<ReplicaSetObj("api-1", "app=api", "hash=1", Revision("1")),
                       ReplicaSetObj("api-2", "app=api", "hash=2", Revision("2"))>>,
     pods        |-> <<PodObj("api-1-p", "app=api", "hash=1", ApiContainers,
                              "web" :> Usage(900, 1000, 700, 800)),
                       PodObj("api-2-p", "app=api", "hash=2", ApiContainers,
                              "web" :> Usage(270, 400, 250, 300))>>]

\* db: requests equal to what the pass recommends, a CPU limit of zero, a
\* sidecar the metrics backend has no series for, two pods that differ
DbContainers ==
    <<Container("main", (ResourceCPU :> 300) @@ (ResourceMemory :> 300 * MiB),
                        (ResourceCPU :> 0) @@ (ResourceMemory :> 512 * MiB)),
      Container("sidecar", ResourceCPU :> 200, NoResources)>>
Db ==
    [deployment  |-> DeploymentObj("db", 1, 2, DbContainers),
     replicasets |-> <<ReplicaSetObj("db-1", "app=db", "hash=1", Revision("1"))>>,
     pods        |-> <<PodObj("db-1-p", "app=db", "hash=1", DbContainers,
                              "main" :> Usage(250, 500, 240, 400)),
                       PodObj("db-1-q", "app=db", "hash=1", DbContainers,
                              "main" :> Usage(290, 1000, 260, 500))>>]

\* dup: two replica sets carry the deployment's revision
DupContainers == <<Container("app", (ResourceCPU :> 100) @@ (ResourceMemory :> 100 * MiB), NoResources)>>
Dup ==
    [deployment  |-> DeploymentObj("dup", 3, 1, DupContainers),
     replicasets |-> <<ReplicaSetObj("dup-a", "app=dup", "hash=a", Revision("3")),
                       ReplicaSetObj("dup-b", "app=dup", "hash=b", Revision("3"))>>,
     pods        |-> <<PodObj("dup-a-p", "app=dup", "hash=a", DupContainers,
                              "app" :> Usage(150, 180, 140, 160)),
                       PodObj("dup-b-p", "app=dup", "hash=b", DupContainers,
                              "app" :> Usage(450, 800, 340, 600))>>]

\* big: a container named like api's, using 32.3 cores
BigContainers == <<Container("web", (ResourceCPU :> 32300) @@ (ResourceMemory :> 0), NoResources)>>
Big ==
    [deployment  |-> DeploymentObj("big", 1, 1, BigContainers),
     replicasets |-> <<ReplicaSetObj("big-1", "app=big", "hash=1", Revision("1"))>>,
     pods        |-> <<PodObj("big-1-p", "app=big", "hash=1", BigContainers,
                              "web" :> Usage(32300, 40000, 10, 20))>>]

\* orphan: no replica set carries revision 2 (one has no annotation, one "02")
OrphanContainers == <<Container("app", NoResources, NoResources)>>
Orphan ==
    [deployment  |-> DeploymentObj("orphan", 2, 1, OrphanContainers),
     replicasets |-> <<ReplicaSetObj("orphan-x", "app=orphan", "hash=x", NoResources),
                       ReplicaSetObj("orphan-1", "app=orphan", "hash=1", Revision("1")),
                       ReplicaSetObj("orphan-2", "app=orphan", "hash=2", Revision("02"))>>,
     pods        |-> <<PodObj("orphan-1-p", "app=orphan", "hash=1", OrphanContainers,
                              "app" :> Usage(100, 200, 100, 200))>>]

\* bare: no replica set at all
Bare ==
    [deployment  |-> DeploymentObj("bare", 1, 1, OrphanContainers),
     replicasets |-> <<>>,
     pods        |-> <<>>]

\* idle: the active replica set has no pod
IdleContainers == <<Container("web", (ResourceCPU :> 100) @@ (ResourceMemory :> 200 * MiB),
                                     ResourceMemory :> 400 * MiB)>>
Idle ==
    [deployment  |-> DeploymentObj("idle", 1, 2, IdleContainers),
     replicasets |-> <<ReplicaSetObj("idle-1", "app=idle", "hash=1", Revision("1"))>>,
     pods        |-> <<>>]

Catalog == [n \in {"api", "db", "dup", "big", "orphan", "bare", "idle"} |->
              CASE n = "api" -> Api [] n = "db" -> Db [] n = "dup" -> Dup [] n = "big" -> Big
                [] n = "orphan" -> Orphan [] n = "bare" -> Bare [] n = "idle" -> Idle]

\* the deployments a namespace of the snapshot may hold
CatalogOf == ("a" :> {"api", "db", "big"}) @@ ("b" :> {"idle", "dup", "orphan", "bare"})

\* ---- state ----
VARIABLES
    cluster,          \* namespace -> the deployments it lists, in listing order
    NamespaceInput,   \* o.NamespaceInput, a sequence of characters
    Quantile,         \* o.Quantile
    LimitMargin,      \* o.LimitMargin
    Namespaces,       \* o.Namespaces
    pc,               \* position of the pass
    nsIdx,            \* position of the namespace loop
    deployments,      \* deployments.Items of the current namespace
    depIdx,           \* position of the deployment loop
    replicasets,      \* replicasets.Items of the current deployment
    replicaset,       \* the replica set findReplicaset returned
    pods,             \* pods.Items of the current deployment
    podIdx,           \* position of the pod loop
    totalRequestCPU, totalRequestMem, totalLimitCPU, totalLimitMem,
    suggestions,      \* what queryPrometheusForPod said of the last pod's specs
    data,             \* the rows
    totalCPUSave, totalMemSave,
    err,              \* what Run returned
    stdout,           \* what the pass printed
    exitCode,
    calls             \* the upstream calls issued, in order

vars == <<cluster, NamespaceInput, Quantile, LimitMargin, Namespaces, pc, nsIdx, deployments, depIdx, replicasets,
          replicaset, pods, podIdx, totalRequestCPU, totalRequestMem, totalLimitCPU,
          totalLimitMem, suggestions, data, totalCPUSave, totalMemSave, err, stdout,
          exitCode, calls>>

EmptyMap == [k \in {} |-> 0]

\* ---- the API server ----
InNamespace(ns, objs) == [i \in DOMAIN objs |-> [namespace |-> ns] @@ objs[i]]

DeploymentsOf(ns) == [i \in DOMAIN cluster[ns] |-> [namespace |-> ns] @@ Catalog[cluster[ns][i]].deployment]
ReplicaSetsOf(ns) == Flatten([i \in DOMAIN cluster[ns] |-> InNamespace(ns, Catalog[cluster[ns][i]].replicasets)])
PodsOf(ns) == Flatten([i \in DOMAIN cluster[ns] |-> InNamespace(ns, Catalog[cluster[ns][i]].pods)])

ObjectsOf(kind, ns) ==
    CASE kind = "deployments" -> DeploymentsOf(ns)
      [] kind = "replicasets" -> ReplicaSetsOf(ns)
      [] kind = "pods" -> PodsOf(ns)

\* List of a namespaced client: the empty namespace lists every namespace,
\* an unknown one lists nothing
ListIn(namespace, kind) ==
    IF namespace = "" THEN Flatten([i \in DOMAIN ClusterNamespaces |-> ObjectsOf(kind, ClusterNamespaces[i])])
    ELSE IF namespace \in Range(ClusterNamespaces) THEN ObjectsOf(kind, namespace)
    ELSE <<>>

ListDeploymentsIn(namespace) == ListIn(namespace, "deployments")
ListReplicaSetsIn(namespace, selector) ==
    SelectSeq(ListIn(namespace, "replicasets"), LAMBDA rs : selector \subseteq rs.labels)
ListPodsIn(namespace, selector) ==
    SelectSeq(ListIn(namespace, "pods"), LAMBDA pod : selector \subseteq pod.labels)

\* ---- strings.Split(o.Namespaces, ",") ----
RECURSIVE Split(_)
Split(chars) ==
    IF chars = <<>> THEN <<"">>
    ELSE LET rest == Split(Tail(chars))
         IN  IF Head(chars) = "," THEN <<"">> \o rest
             ELSE <<Head(chars) \o Head(rest)>> \o Tail(rest)

\* ---- findReplicaset ----
FormatInt(n) == ToString(n)

Matches(rs, generation) ==
    /\ deploymentRevision \in DOMAIN rs.annotations
    /\ rs.annotations[deploymentRevision] = FormatInt(generation)

RECURSIVE findReplicasetFrom(_, _, _)
findReplicasetFrom(items, generation, i) ==
    IF i > Len(items) THEN [replicaset |-> Nil, err |-> "could not find replicaset"]
    ELSE IF Matches(items[i], generation) THEN [replicaset |-> items[i], err |-> NoError]
    ELSE findReplicasetFrom(items, generation, i + 1)

\* a resolver that falls back to the first listed replica set
findReplicasetFallback(items, generation) ==
    LET found == findReplicasetFrom(items, generation, 1)
    IN  IF found.err # NoError /\ items # <<>>
        THEN [replicaset |-> items[1], err |-> NoError]
        ELSE found

findReplicaset(items, generation) == findReplicasetFrom(items, generation, 1)

\* ---- the metrics backend ----
Queries == <<"podCPURequest", "podCPULimit", "podMemoryRequest", "podMemoryLimit">>

\* the samples of the [1w] range of a series, oldest first, in the sample
\* unit: a series that ran at one level and peaked at the end of the window,
\* given by its mean and its maximum
WindowLen == 5

Window(mean, maximum) ==
    [i \in 1..WindowLen |->
        IF i < WindowLen THEN ((WindowLen * mean - maximum) * SampleScale) \div (WindowLen - 1)
        ELSE maximum * SampleScale]

avg_over_time(window) == SumSeq(window) \div Len(window)

max_over_time(window) == CHOOSE v \in Range(window) : \A w \in Range(window) : w <= v

\* the vector a query returns for a pod, keyed by the container label
queryStatistic(request, pod) ==
    [c \in DOMAIN pod.usage |->
        CASE request = "podCPURequest"    -> avg_over_time(Window(pod.usage[c].cpuAvg, pod.usage[c].cpuMax))
          [] request = "podCPULimit"      ->
               (max_over_time(Window(pod.usage[c].cpuAvg, pod.usage[c].cpuMax)) * LimitFactorTimes10) \div SampleScale
          [] request = "podMemoryRequest" -> avg_over_time(Window(pod.usage[c].memAvg, pod.usage[c].memMax))
          [] request = "podMemoryLimit"   ->
               (max_over_time(Window(pod.usage[c].memAvg, pod.usage[c].memMax)) * LimitFactorTimes10) \div SampleScale]

\* ---- queryPrometheusForPod: what it says of the pod's current specs ----
\* a reading of the current values that takes a zero quantity for a missing one
getCurrentValueZeroIsNil(resources) ==
    LET Set(list, r) == IF r \in DOMAIN list /\ list[r] # 0 THEN {list[r]} ELSE {}
    IN  [RequestCPU |-> Set(resources.Requests, ResourceCPU),
         LimitCPU   |-> Set(resources.Limits, ResourceCPU),
         RequestMem |-> Set(resources.Requests, ResourceMemory),
         LimitMem   |-> Set(resources.Limits, ResourceMemory)]

getCurrentValue(resources) ==
    [RequestCPU |-> IF ResourceCPU \in DOMAIN resources.Requests THEN {resources.Requests[ResourceCPU]} ELSE {},
     LimitCPU   |-> IF ResourceCPU \in DOMAIN resources.Limits THEN {resources.Limits[ResourceCPU]} ELSE {},
     RequestMem |-> IF ResourceMemory \in DOMAIN resources.Requests THEN {resources.Requests[ResourceMemory]} ELSE {},
     LimitMem   |-> IF ResourceMemory \in DOMAIN resources.Limits THEN {resources.Limits[ResourceMemory]} ELSE {}]

asFloat(val) == IF val = {} THEN 0 ELSE CHOOSE v \in val : TRUE

\* usage and resource are integers over the same unit; usage*100/resource is
\* compared with 80 and 110 in lowest terms, and a zero resource gives +Inf
makeSuggestion(output, podName, containerName, text, usage, resource) ==
    LET low  == resource > 0 /\ usage * 5 < 4 * resource
        high == IF resource = 0 THEN usage > 0 ELSE usage * 10 > 11 * resource
        dec  == IF usage < resource /\ low
                THEN <<[Pod |-> podName, Container |-> containerName, Message |-> "Decrease " \o text]>>
                ELSE <<>>
        inc  == IF usage > resource /\ high
                THEN <<[Pod |-> podName, Container |-> containerName, Message |-> "Increase " \o text]>>
                ELSE <<>>
    IN  output \o dec \o inc

\* the suggestions about one signal of one container; a sample is worth
\* unitsPerSample/SampleScale units of the quantity
SignalSuggestions(output, pod, container, current, samples, text, unitsPerSample) ==
    IF current = {}
    THEN Append(output, [Pod |-> pod.name, Container |-> container.name, Message |-> "Define " \o text])
    ELSE IF container.name \in DOMAIN samples
    THEN makeSuggestion(output, pod.name, container.name, text,
                        samples[container.name] * unitsPerSample, asFloat(current) * SampleScale)
    ELSE Append(output, [Pod |-> pod.name, Container |-> container.name,
                         Message |-> "Could not find " \o text \o " from prometheus"])

RECURSIVE ContainerSuggestions(_, _, _)
ContainerSuggestions(output, pod, i) ==
    IF i > Len(pod.containers) THEN output
    ELSE LET container == pod.containers[i]
             cur == getCurrentValue(container.resources)
             s1 == SignalSuggestions(output, pod, container, cur.RequestCPU,
                                     queryStatistic("podCPURequest", pod), "CPU Requests", 1)
             s2 == SignalSuggestions(s1, pod, container, cur.RequestMem,
                                     queryStatistic("podMemoryRequest", pod), "Memory Requests", MiB)
             s3 == SignalSuggestions(s2, pod, container, cur.LimitCPU,
                                     queryStatistic("podCPULimit", pod), "CPU Limits", 1)
             s4 == SignalSuggestions(s3, pod, container, cur.LimitMem,
                                     queryStatistic("podMemoryLimit", pod), "Memory Limits", MiB)
         IN  ContainerSuggestions(s4, pod, i + 1)

\* ---- Run: the samples of one deployment ----
AppendSamples(total, output) ==
    [k \in DOMAIN total \cup DOMAIN output |->
        (IF k \in DOMAIN total THEN total[k] ELSE <<>>) \o
        (IF k \in DOMAIN output THEN <<output[k]>> ELSE <<>>)]

\* float64Average(v), as the fraction num/den over the sample unit
float64Average(v) == [num |-> SumSeq(v), den |-> Len(v)]

\* math.Ceil(value*scale) / scale, in tenths of a core
RoundCPU(v) ==
    LET value == float64Average(v)
    IN  CeilDiv(value.num * CPUScale, value.den * SampleScale * MilliPerCore)

\* math.Ceil(value/100) * 100, in MiB
RoundMem(v) ==
    LET value == float64Average(v)
    IN  CeilDiv(value.num, value.den * SampleScale * MemBucket) * MemBucket

Final(reqCPU, reqMem, limCPU, limMem) ==
    [RequestCPU |-> [k \in DOMAIN reqCPU |-> RoundCPU(reqCPU[k])],
     RequestMem |-> [k \in DOMAIN reqMem |-> RoundMem(reqMem[k])],
     LimitCPU   |-> [k \in DOMAIN limCPU |-> RoundCPU(limCPU[k])],
     LimitMem   |-> [k \in DOMAIN limMem |-> RoundMem(limMem[k])]]

\* ---- currentValue and analyzeDeployment ----
Lookup(m, k) == IF k \in DOMAIN m THEN m[k] ELSE 0

\* int(x * 1000) for the float64 x = k / 10
MilliOfTenths(k) == IF k = 0 THEN 0 ELSE IntOfTimes1000(Float64Div10(k))

\* Quantity.String(): the canonical form, with the largest suffix that keeps
\* the number whole
QuantityString(val, resource) ==
    IF val = 0 THEN "0"
    ELSE IF resource = ResourceCPU
    THEN IF val % MilliPerCore = 0 THEN ToString(val \div MilliPerCore) ELSE ToString(val) \o "m"
    ELSE IF val % (1024 * MiB) = 0 THEN ToString(val \div (1024 * MiB)) \o "Gi"
    ELSE IF val % MiB = 0 THEN ToString(val \div MiB) \o "Mi"
    ELSE IF val % (MiB \div 1024) = 0 THEN ToString(val \div (MiB \div 1024)) \o "Ki"
    ELSE ToString(val * ((1024 * 1024) \div MiB))

\* the saving is in millicores for DecimalSI (the code's cores, times 1000)
\* and in units of 64 bytes for BinarySI
currentValue(resources, method, resource, current, format) ==
    LET curSaving == IF format = DecimalSI THEN current ELSE current * MemSavingFactor
        list == IF method = "limit" THEN resources.Limits ELSE resources.Requests
    IN  IF resource \in DOMAIN list
        THEN <<list[resource] - curSaving, QuantityString(list[resource], resource)>>
        ELSE <<(-1) * curSaving, Nil>>

\* one row of the table: each signal's recommendation and current value
Row(ns, d, container, reqCpu, strReqCPU, reqMem, strReqMem, limCpu, strLimCPU, limMem, strLimMem) ==
    [namespace  |-> ns,
     deployment |-> d.name,
     container  |-> container.name,
     reqCPU     |-> [rec |-> reqCpu, cur |-> strReqCPU],
     reqMem     |-> [rec |-> reqMem, cur |-> strReqMem],
     limCPU     |-> [rec |-> limCpu, cur |-> strLimCPU],
     limMem     |-> [rec |-> limMem, cur |-> strLimMem]]

\* an analysis that also counts the limit deltas as savings
RECURSIVE analyzeContainersWithLimits(_, _, _, _, _, _, _)
analyzeContainersWithLimits(rows, ns, d, finalMetrics, i, totalCPUSavings, totalMemSavings) ==
    IF i > Len(d.containers)
    THEN [data |-> rows, cpuSave |-> totalCPUSavings, memSave |-> totalMemSavings]
    ELSE LET container == d.containers[i]
             reqCpu == MilliOfTenths(Lookup(finalMetrics.RequestCPU, container.name))
             reqMem == Lookup(finalMetrics.RequestMem, container.name)
             limCpu == MilliOfTenths(Lookup(finalMetrics.LimitCPU, container.name))
             limMem == Lookup(finalMetrics.LimitMem, container.name)
             rc == currentValue(container.resources, "request", ResourceCPU, reqCpu, DecimalSI)
             rm == currentValue(container.resources, "request", ResourceMemory, reqMem, BinarySI)
             lc == currentValue(container.resources, "limit", ResourceCPU, limCpu, DecimalSI)
             lm == currentValue(container.resources, "limit", ResourceMemory, limMem, BinarySI)
         IN  analyzeContainersWithLimits(
                 Append(rows, Row(ns, d, container, reqCpu, rc[2], reqMem, rm[2], limCpu, lc[2], limMem, lm[2])),
                 ns, d, finalMetrics, i + 1,
                 totalCPUSavings + (rc[1] + lc[1]) * d.replicas,
                 totalMemSavings + (rm[1] + lm[1]) * d.replicas)

RECURSIVE analyzeContainers(_, _, _, _, _, _, _)
analyzeContainers(rows, namespace, deployment, finalMetrics, i, totalCPUSavings, totalMemSavings) ==
    IF i > Len(deployment.containers)
    THEN [data |-> rows, cpuSave |-> totalCPUSavings, memSave |-> totalMemSavings]
    ELSE LET container == deployment.containers[i]
             reqCpu == MilliOfTenths(Lookup(finalMetrics.RequestCPU, container.name))
             reqMem == Lookup(finalMetrics.RequestMem, container.name)
             limCpu == MilliOfTenths(Lookup(finalMetrics.LimitCPU, container.name))
             limMem == Lookup(finalMetrics.LimitMem, container.name)
             rc == currentValue(container.resources, "request", ResourceCPU, reqCpu, DecimalSI)
             rm == currentValue(container.resources, "request", ResourceMemory, reqMem, BinarySI)
             lc == currentValue(container.resources, "limit", ResourceCPU, limCpu, DecimalSI)
             lm == currentValue(container.resources, "limit", ResourceMemory, limMem, BinarySI)
             row == Row(namespace, deployment, container, reqCpu, rc[2], reqMem, rm[2],
                        limCpu, lc[2], limMem, lm[2])
         IN  analyzeContainers(Append(rows, row), namespace, deployment, finalMetrics, i + 1,
                               totalCPUSavings + rc[1] * deployment.replicas,
                               totalMemSavings + rm[1] * deployment.replicas)

\* an analysis that puts a deployment's rows in front of the earlier ones
analyzeDeploymentPrepends(rows, ns, d, finalMetrics) ==
    LET out == analyzeContainers(<<>>, ns, d, finalMetrics, 1, 0, 0)
    IN  [data |-> out.data \o rows, cpuSave |-> out.cpuSave, memSave |-> out.memSave]

analyzeDeployment(rows, ns, d, finalMetrics) ==
    analyzeContainers(rows, ns, d, finalMetrics, 1, 0, 0)

\* ---- the pass ----
SeqsUpTo(S, n) == UNION {[1..m -> S] : m \in 0..n}
Listings(S, n) == {s \in SeqsUpTo(S, n) : \A i, j \in DOMAIN s : i # j => s[i] # s[j]}

\* the namespace argument that names the given namespaces
RECURSIVE Join(_)
Join(names) ==
    IF names = <<>> THEN <<>>
    ELSE LET head == IF Head(names) = "" THEN <<>> ELSE <<Head(names)>>
         IN  IF Len(names) = 1 THEN head ELSE head \o <<",">> \o Join(Tail(names))

NamespaceInputs == {Join(names) : names \in SeqsUpTo(NamespaceNames, MaxNamespaces)}

\* the request quantile and the limit margin a caller sets in Options
Settings == {[Quantile |-> "0.9", LimitMargin |-> "1.2"], [Quantile |-> "0.5", LimitMargin |-> "1.5"]}

Clusters ==
    {c \in [a : Listings(CatalogOf["a"], MaxDeployments), b : Listings(CatalogOf["b"], MaxDeployments)] :
        Len(c.a) + Len(c.b) <= MaxDeployments}

Init ==
    /\ cluster \in Clusters
    /\ NamespaceInput \in NamespaceInputs
    /\ \E o \in Settings : Quantile = o.Quantile /\ LimitMargin = o.LimitMargin
    /\ Namespaces = <<>>
    /\ pc = "start"
    /\ nsIdx = 1
    /\ deployments = <<>>
    /\ depIdx = 1
    /\ replicasets = <<>>
    /\ replicaset = Nil
    /\ pods = <<>>
    /\ podIdx = 1
    /\ totalRequestCPU = EmptyMap
    /\ totalRequestMem = EmptyMap
    /\ totalLimitCPU = EmptyMap
    /\ totalLimitMem = EmptyMap
    /\ suggestions = <<>>
    /\ data = <<>>
    /\ totalCPUSave = 0
    /\ totalMemSave = 0
    /\ err = NoError
    /\ stdout = <<>>
    /\ exitCode = Nil
    /\ calls = <<>>

namespaces == Split(Namespaces)
namespace == namespaces[nsIdx]
deployment == deployments[depIdx]

\* return err
Return(e) == pc' = "returned" /\ err' = e

\* the end of one iteration of a loop: the next deployment, else the next
\* namespace, else the table
NextDeployment(items, idx) ==
    IF idx < Len(items)
    THEN pc' = "listReplicaSets" /\ depIdx' = idx + 1 /\ nsIdx' = nsIdx
    ELSE IF nsIdx < Len(namespaces)
    THEN pc' = "listDeployments" /\ depIdx' = idx /\ nsIdx' = nsIdx + 1
    ELSE pc' = "render" /\ depIdx' = idx /\ nsIdx' = nsIdx

\* the clients, and the namespaces to walk
Setup ==
    /\ pc = "start"
    /\ \/ /\ Return("config")
          /\ UNCHANGED Namespaces
       \/ /\ IF NamespaceInput = <<>>
             THEN \E i \in DOMAIN ClusterNamespaces : Namespaces' = <<ClusterNamespaces[i]>>
             ELSE Namespaces' = NamespaceInput
          /\ pc' = "listDeployments"
          /\ err' = err
    /\ UNCHANGED <<cluster, NamespaceInput, Quantile, LimitMargin, nsIdx, deployments, depIdx, replicasets, replicaset, pods,
                   podIdx, totalRequestCPU, totalRequestMem, totalLimitCPU, totalLimitMem, suggestions,
                   data, totalCPUSave, totalMemSave, stdout, exitCode, calls>>

ListDeployments ==
    /\ pc = "listDeployments"
    /\ calls' = Append(calls, [call |-> "listDeployments", namespace |-> namespace, target |-> ""])
    /\ \/ /\ Return("list deployments")
          /\ UNCHANGED <<deployments, depIdx, nsIdx>>
       \/ /\ deployments' = ListDeploymentsIn(namespace)
          /\ err' = err
          /\ NextDeployment(deployments', 0)
    /\ UNCHANGED <<cluster, NamespaceInput, Quantile, LimitMargin, Namespaces, replicasets, replicaset, pods, podIdx,
                   totalRequestCPU, totalRequestMem, totalLimitCPU, totalLimitMem, suggestions,
                   data, totalCPUSave, totalMemSave, stdout, exitCode>>

ListReplicaSets ==
    /\ pc = "listReplicaSets"
    /\ calls' = Append(calls, [call |-> "listReplicaSets", namespace |-> namespace, target |-> deployment.name])
    /\ \/ /\ Return("list replicasets")
          /\ UNCHANGED replicasets
       \/ /\ replicasets' = ListReplicaSetsIn(namespace, deployment.selector)
          /\ pc' = "findReplicaset"
          /\ err' = err
    /\ UNCHANGED <<cluster, NamespaceInput, Quantile, LimitMargin, Namespaces, nsIdx, deployments, depIdx, replicaset, pods, podIdx,
                   totalRequestCPU, totalRequestMem, totalLimitCPU, totalLimitMem, suggestions,
                   data, totalCPUSave, totalMemSave, stdout, exitCode>>

FindReplicaset ==
    /\ pc = "findReplicaset"
    /\ LET found == findReplicaset(replicasets, deployment.revision)
       IN  IF found.err # NoError
           THEN Return(found.err) /\ UNCHANGED replicaset
           ELSE replicaset' = found.replicaset /\ pc' = "listPods" /\ err' = err
    /\ UNCHANGED <<cluster, NamespaceInput, Quantile, LimitMargin, Namespaces, nsIdx, deployments, depIdx, replicasets, pods, podIdx,
                   totalRequestCPU, totalRequestMem, totalLimitCPU, totalLimitMem, suggestions,
                   data, totalCPUSave, totalMemSave, stdout, exitCode, calls>>

\* a listing of the pods by the selector of the deployment
ListPodsOfDeployment ==
    /\ pc = "listPods"
    /\ calls' = Append(calls, [call |-> "listPods", namespace |-> namespace, target |-> replicaset.name])
    /\ \/ /\ Return("list pods")
          /\ UNCHANGED <<pods, podIdx, totalRequestCPU, totalRequestMem, totalLimitCPU, totalLimitMem>>
       \/ /\ pods' = ListPodsIn(namespace, deployment.selector)
          /\ podIdx' = 1
          /\ totalLimitCPU' = EmptyMap
          /\ totalLimitMem' = EmptyMap
          /\ totalRequestCPU' = EmptyMap
          /\ totalRequestMem' = EmptyMap
          /\ pc' = IF pods' = <<>> THEN "analyze" ELSE "queryPod"
          /\ err' = err
    /\ UNCHANGED <<cluster, NamespaceInput, Quantile, LimitMargin, Namespaces, nsIdx, deployments, depIdx, replicasets, replicaset,
                   suggestions, data, totalCPUSave, totalMemSave, stdout, exitCode>>

\* a listing that keeps the sample maps of the deployment before
ListPodsKeepsSamples ==
    /\ pc = "listPods"
    /\ calls' = Append(calls, [call |-> "listPods", namespace |-> namespace, target |-> replicaset.name])
    /\ \/ /\ Return("list pods")
          /\ UNCHANGED <<pods, podIdx, totalRequestCPU, totalRequestMem, totalLimitCPU, totalLimitMem>>
       \/ /\ pods' = ListPodsIn(namespace, replicaset.selector)
          /\ podIdx' = 1
          /\ UNCHANGED <<totalLimitCPU, totalLimitMem, totalRequestCPU, totalRequestMem>>
          /\ pc' = IF pods' = <<>> THEN "analyze" ELSE "queryPod"
          /\ err' = err
    /\ UNCHANGED <<cluster, NamespaceInput, Quantile, LimitMargin, Namespaces, nsIdx, deployments, depIdx, replicasets, replicaset,
                   suggestions, data, totalCPUSave, totalMemSave, stdout, exitCode>>

\* the pods of the replica set findReplicaset returned, and fresh sample maps
ListPods ==
    /\ pc = "listPods"
    /\ calls' = Append(calls, [call |-> "listPods", namespace |-> namespace, target |-> replicaset.name])
    /\ \/ /\ Return("list pods")
          /\ UNCHANGED <<pods, podIdx, totalRequestCPU, totalRequestMem, totalLimitCPU, totalLimitMem>>
       \/ /\ pods' = ListPodsIn(namespace, replicaset.selector)
          /\ podIdx' = 1
          /\ totalLimitCPU' = EmptyMap
          /\ totalLimitMem' = EmptyMap
          /\ totalRequestCPU' = EmptyMap
          /\ totalRequestMem' = EmptyMap
          /\ pc' = IF pods' = <<>> THEN "analyze" ELSE "queryPod"
          /\ err' = err
    /\ UNCHANGED <<cluster, NamespaceInput, Quantile, LimitMargin, Namespaces, nsIdx, deployments, depIdx, replicasets, replicaset,
                   suggestions, data, totalCPUSave, totalMemSave, stdout, exitCode>>

\* a query that leaves out the pod="%s" matcher
QueryCallUnscoped(pod, q) == [call |-> Queries[q], namespace |-> namespace, target |-> ""]

QueryCall(pod, q) == [call |-> Queries[q], namespace |-> namespace, target |-> pod.name]

\* queryPrometheusForPod for pods[podIdx] and the appends of its output;
\* failedAt is the query that fails, 0 when none does
QueryPod ==
    /\ pc = "queryPod"
    /\ LET pod == pods[podIdx]
       IN  \E failedAt \in 0..Len(Queries) :
             /\ calls' = calls \o [q \in 1..(IF failedAt = 0 THEN Len(Queries) ELSE failedAt) |-> QueryCall(pod, q)]
             /\ IF failedAt # 0
                THEN /\ Return("Error querying statistic")
                     /\ UNCHANGED <<podIdx, totalRequestCPU, totalRequestMem, totalLimitCPU, totalLimitMem,
                                    suggestions>>
                ELSE /\ totalRequestCPU' = AppendSamples(totalRequestCPU, queryStatistic("podCPURequest", pod))
                     /\ totalRequestMem' = AppendSamples(totalRequestMem, queryStatistic("podMemoryRequest", pod))
                     /\ totalLimitCPU' = AppendSamples(totalLimitCPU, queryStatistic("podCPULimit", pod))
                     /\ totalLimitMem' = AppendSamples(totalLimitMem, queryStatistic("podMemoryLimit", pod))
                     /\ suggestions' = ContainerSuggestions(<<>>, pod, 1)
                     /\ podIdx' = podIdx + 1
                     /\ pc' = IF podIdx < Len(pods) THEN "queryPod" ELSE "analyze"
                     /\ err' = err
    /\ UNCHANGED <<cluster, NamespaceInput, Quantile, LimitMargin, Namespaces, nsIdx, deployments, depIdx, replicasets, replicaset,
                   pods, data, totalCPUSave, totalMemSave, stdout, exitCode>>

\* the rounding of the averages, the rows of the deployment and the totals
Analyze ==
    /\ pc = "analyze"
    /\ LET final == Final(totalRequestCPU, totalRequestMem, totalLimitCPU, totalLimitMem)
           out == analyzeDeployment(data, namespace, deployment, final)
       IN  /\ data' = out.data
           /\ totalCPUSave' = totalCPUSave + out.cpuSave
           /\ totalMemSave' = totalMemSave + out.memSave
    /\ NextDeployment(deployments, depIdx)
    /\ UNCHANGED <<cluster, NamespaceInput, Quantile, LimitMargin, Namespaces, deployments, replicasets, replicaset, pods, podIdx,
                   totalRequestCPU, totalRequestMem, totalLimitCPU, totalLimitMem, suggestions,
                   err, stdout, exitCode, calls>>

\* the table and the totals line
Render ==
    /\ pc = "render"
    /\ stdout' = stdout \o data \o
                 <<[line |-> "Total savings", cpu |-> totalCPUSave,
                    sign |-> IF totalMemSave < 0 THEN "-" ELSE "",
                    mem  |-> IF totalMemSave < 0 THEN (-1) * totalMemSave ELSE totalMemSave]>>
    /\ Return(NoError)
    /\ UNCHANGED <<cluster, NamespaceInput, Quantile, LimitMargin, Namespaces, nsIdx, deployments, depIdx, replicasets, replicaset,
                   pods, podIdx, totalRequestCPU, totalRequestMem, totalLimitCPU, totalLimitMem,
                   suggestions, data, totalCPUSave, totalMemSave, exitCode, calls>>

\* a command that prints the rows gathered so far when Run fails
ExecutePrintsPartial ==
    /\ pc = "returned"
    /\ pc' = "exited"
    /\ exitCode' = IF err # NoError THEN 1 ELSE 0
    /\ stdout' = IF err # NoError THEN stdout \o data ELSE stdout
    /\ UNCHANGED <<cluster, NamespaceInput, Quantile, LimitMargin, Namespaces, nsIdx, deployments, depIdx, replicasets, replicaset,
                   pods, podIdx, totalRequestCPU, totalRequestMem, totalLimitCPU, totalLimitMem,
                   suggestions, data, totalCPUSave, totalMemSave, err, calls>>

\* the command's func: an error of Run ends the process with status 1
Execute ==
    /\ pc = "returned"
    /\ pc' = "exited"
    /\ exitCode' = IF err # NoError THEN 1 ELSE 0
    /\ UNCHANGED <<cluster, NamespaceInput, Quantile, LimitMargin, Namespaces, nsIdx, deployments, depIdx, replicasets, replicaset,
                   pods, podIdx, totalRequestCPU, totalRequestMem, totalLimitCPU, totalLimitMem,
                   suggestions, data, totalCPUSave, totalMemSave, err, stdout, calls>>

Next ==
    \/ Setup
    \/ ListDeployments
    \/ ListReplicaSets
    \/ FindReplicaset
    \/ ListPods
    \/ QueryPod
    \/ Analyze
    \/ Render
    \/ Execute

Spec == Init /\ [][Next]_vars

TypeOK ==
    /\ pc \in {"start", "listDeployments", "listReplicaSets", "findReplicaset", "listPods", "queryPod",
               "analyze", "render", "returned", "exited"}
    /\ exitCode \in {Nil, 0, 1}

\* ---- the claims ----
\* the revision marker of replica set rs is the revision of deployment d
CarriesRevision(rs, d) ==
    /\ deploymentRevision \in DOMAIN rs.annotations
    /\ rs.annotations[deploymentRevision] = ToString(d.revision)

\* the listed replica sets that carry the revision of the current deployment
Candidates == {i \in DOMAIN replicasets : CarriesRevision(replicasets[i], deployment)}
FirstCandidate == CHOOSE i \in Candidates : \A j \in Candidates : i <= j

\* the pass is measuring the replica set it resolved for the current deployment
Resolved == pc \in {"listPods", "queryPod", "analyze"}
Ended == pc \in {"returned", "exited"}

\* C1, as stated: when two or more listed replica sets carry the deployment's
\* revision, resolution fails and no pod of the deployment is measured.
C1_DuplicatesFail == (Resolved /\ Cardinality(Candidates) >= 2) => FALSE

\* C1, what the code does instead: when two or more listed replica sets carry
\* the deployment's revision, findReplicaset returns the first of them in
\* listing order, without an error, and Run goes on to list its pods.
C1_DuplicatesResolveToFirst ==
    [][(pc = "findReplicaset" /\ Cardinality(Candidates) >= 2)
          => (pc' = "listPods" /\ err' = NoError /\ replicaset' = replicasets[FirstCandidate])]_vars

C1_Witness ==
    /\ pc = "analyze"
    /\ Cardinality(Candidates) >= 2
    /\ replicaset = replicasets[FirstCandidate]
    /\ pods # <<>>

\* C2: when no listed replica set carries the deployment's revision (an empty
\* list, no annotation, another revision), findReplicaset fails, Run returns
\* that error at once, and nothing is listed, queried or analysed afterwards.
C2_NoMatchFails ==
    [][/\ (pc = "findReplicaset" /\ Candidates = {})
            => (pc' = "returned" /\ err' = "could not find replicaset" /\ calls' = calls /\ data' = data)
       /\ err = "could not find replicaset"
            => (calls' = calls /\ data' = data /\ depIdx' = depIdx /\ nsIdx' = nsIdx /\ err' = err)]_vars

C2_Witness ==
    /\ pc = "exited"
    /\ err = "could not find replicaset"
    /\ replicasets # <<>>
    /\ depIdx < Len(deployments)
    /\ \A i \in DOMAIN calls : calls[i].call \in {"listDeployments", "listReplicaSets"}

\* the (namespace, deployment, container) of each row
RowKeys(rows) == [i \in DOMAIN rows |-> <<rows[i].namespace, rows[i].deployment, rows[i].container>>]

\* the rows owed to the first n deployments the namespace lists
KeysOfDeployment(ns, d) == [i \in DOMAIN d.containers |-> <<ns, d.name, d.containers[i].name>>]
KeysOfNamespace(ns, n) == Flatten([j \in 1..n |-> KeysOfDeployment(ns, ListDeploymentsIn(ns)[j])])

\* the rows owed once nsDone namespaces of the argument are done, and depDone
\* deployments of the next one
ExpectedKeys(nsDone, depDone) ==
    Flatten([k \in 1..nsDone |-> KeysOfNamespace(namespaces[k], Len(ListDeploymentsIn(namespaces[k])))])
    \o (IF nsDone < Len(namespaces) THEN KeysOfNamespace(namespaces[nsDone + 1], depDone) ELSE <<>>)

PassComplete == RowKeys(data) = ExpectedKeys(Len(namespaces), 0)

NewCalls == SubSeq(calls', Len(calls) + 1, Len(calls'))

\* C3: an upstream failure, wherever it happens in the pass, ends the pass: the
\* failing call is issued once, no call follows it, no row and no totals line
\* is printed, and the process exits with status 1; rows and totals are printed
\* only when every workload of every namespace was processed without error.
C3_FailureAborts ==
    /\ [](err # NoError => (Ended /\ stdout = <<>>))
    /\ [](pc = "exited" => exitCode = (IF err # NoError THEN 1 ELSE 0))
    /\ [](stdout # <<>> => (err = NoError /\ Ended /\ PassComplete))
    /\ [][/\ err # NoError => (calls' = calls /\ stdout' = stdout /\ data' = data /\ err' = err)
          /\ (err = NoError /\ err' # NoError)
                => /\ pc' = "returned"
                   /\ data' = data
                   /\ \A i, j \in DOMAIN NewCalls : i # j => NewCalls[i] # NewCalls[j]]_vars

C3_Witness ==
    /\ pc = "exited"
    /\ exitCode = 1
    /\ err = "Error querying statistic"
    /\ data # <<>>
    /\ stdout = <<>>

\* ---- the rows of one deployment, as Analyze appends them ----
Signals ==
    {[field |-> "reqCPU", method |-> "request", resource |-> ResourceCPU, format |-> DecimalSI,
      text |-> "CPU Requests"],
     [field |-> "reqMem", method |-> "request", resource |-> ResourceMemory, format |-> BinarySI,
      text |-> "Memory Requests"],
     [field |-> "limCPU", method |-> "limit", resource |-> ResourceCPU, format |-> DecimalSI,
      text |-> "CPU Limits"],
     [field |-> "limMem", method |-> "limit", resource |-> ResourceMemory, format |-> BinarySI,
      text |-> "Memory Limits"]}
RequestSignals == {sig \in Signals : sig.method = "request"}

\* the samples gathered for a signal of the current deployment
SamplesOf(sig) ==
    CASE sig.field = "reqCPU" -> totalRequestCPU
      [] sig.field = "reqMem" -> totalRequestMem
      [] sig.field = "limCPU" -> totalLimitCPU
      [] sig.field = "limMem" -> totalLimitMem

\* the configured quantities of a container for a signal
ListOf(c, sig) == IF sig.method = "limit" THEN c.resources.Limits ELSE c.resources.Requests
Present(c, sig) == sig.resource \in DOMAIN ListOf(c, sig)

\* a recommendation as a quantity: millicores, and MiB in units of 64 bytes
AsQuantity(rec, sig) == IF sig.format = DecimalSI THEN rec ELSE rec * MiB

\* the delta currentValue computes for the recommendation a row shows
DeltaOf(c, row, sig) == currentValue(c.resources, sig.method, sig.resource, row[sig.field].rec, sig.format)[1]

\* the row Analyze appends for container i of the current deployment
NewRow(i) == data'[Len(data) + i]

\* C4, as stated: a container the aggregated result of a signal does not name
\* is undetermined for that signal: its row shows no recommendation of zero,
\* and its request signals add nothing to the totals.
C4_AbsentIsUndetermined ==
    [][pc = "analyze" =>
         \A i \in DOMAIN deployment.containers : \A sig \in Signals :
            LET c == deployment.containers[i]
            IN  c.name \notin DOMAIN SamplesOf(sig)
                  => /\ NewRow(i)[sig.field].rec # 0
                     /\ sig.method = "request" => DeltaOf(c, NewRow(i), sig) * deployment.replicas = 0]_vars

\* C5, as stated: a request that equals the rounded recommendation of its row
\* has a delta of exactly 0 and adds 0 to the totals, for CPU and for memory.
C5_EqualMeansNoDelta ==
    [][pc = "analyze" =>
         \A i \in DOMAIN deployment.containers : \A sig \in RequestSignals :
            LET c == deployment.containers[i]
            IN  (Present(c, sig) /\ ListOf(c, sig)[sig.resource] = AsQuantity(NewRow(i)[sig.field].rec, sig))
                  => /\ DeltaOf(c, NewRow(i), sig) = 0
                     /\ DeltaOf(c, NewRow(i), sig) * deployment.replicas = 0]_vars

\* the bucket of a signal, in the unit its recommendation is shown in
Bucket(sig) == IF sig.format = DecimalSI THEN MilliPerCore \div CPUScale ELSE MemBucket

\* the recommendation the pass would show for the aggregated value x = rec
Reround(rec, sig) ==
    IF sig.format = DecimalSI THEN MilliOfTenths(RoundCPU(<<rec * SampleScale>>))
    ELSE RoundMem(<<rec * SampleScale>>)

\* C6, as stated: the recommendation shown for an aggregated value x >= 0 is
\* the smallest multiple of the bucket (0.1 core, 100 MiB) that is >= x, and
\* rounding it again changes nothing.
C6_RoundsUpToBucket ==
    [][pc = "analyze" =>
         \A i \in DOMAIN deployment.containers : \A sig \in Signals :
            LET c   == deployment.containers[i]
                rec == NewRow(i)[sig.field].rec
            IN  c.name \in DOMAIN SamplesOf(sig)
                  => LET x == float64Average(SamplesOf(sig)[c.name])
                     IN  /\ rec * x.den * SampleScale >= x.num
                         /\ rec % Bucket(sig) = 0
                         /\ (rec - Bucket(sig)) * x.den * SampleScale < x.num
                         /\ Reround(rec, sig) = rec]_vars

\* C7, as stated: a container without a request for a resource has a delta of
\* the size of the whole recommendation its row shows, towards an increase,
\* and adds recommendation x replicas to the total.
C7_AbsentRequestIsFullDelta ==
    [][pc = "analyze" =>
         /\ \A i \in DOMAIN deployment.containers : \A sig \in RequestSignals :
               LET c == deployment.containers[i]
               IN  ~Present(c, sig)
                     => DeltaOf(c, NewRow(i), sig) = (-1) * AsQuantity(NewRow(i)[sig.field].rec, sig)
         /\ (Len(deployment.containers) = 1 /\ deployment.containers[1].resources.Requests = NoResources)
               => /\ totalCPUSave' - totalCPUSave = (-1) * NewRow(1).reqCPU.rec * deployment.replicas
                  /\ totalMemSave' - totalMemSave = (-1) * NewRow(1).reqMem.rec * MiB * deployment.replicas]_vars

\* ---- the outcome of a whole pass, from the cluster and the namespaces ----
RECURSIVE GatherFrom(_, _, _, _)
GatherFrom(podList, request, i, total) ==
    IF i > Len(podList) THEN total
    ELSE GatherFrom(podList, request, i + 1, AppendSamples(total, queryStatistic(request, podList[i])))

\* the samples of a signal over the pods of a replica set
Gather(podList, request) == GatherFrom(podList, request, 1, EmptyMap)

\* the rows and the savings of deployment d of namespace argument ns, on its own
OutcomeOf(ns, d) ==
    LET rs == findReplicaset(ListReplicaSetsIn(ns, d.selector), d.revision).replicaset
        podList == ListPodsIn(ns, rs.selector)
        final == Final(Gather(podList, "podCPURequest"), Gather(podList, "podMemoryRequest"),
                       Gather(podList, "podCPULimit"), Gather(podList, "podMemoryLimit"))
    IN  analyzeDeployment(<<>>, ns, d, final)

\* the workloads of a pass, in the order Run walks them
Processed ==
    Flatten([k \in DOMAIN namespaces |->
                [j \in DOMAIN ListDeploymentsIn(namespaces[k]) |->
                    [ns |-> namespaces[k], d |-> ListDeploymentsIn(namespaces[k])[j]]]])

Reverse(s) == [i \in DOMAIN s |-> s[Len(s) + 1 - i]]

\* the totals of a pass that walks the workloads ws in the order given
RECURSIVE TotalsOver(_, _, _, _)
TotalsOver(ws, i, cpu, mem) ==
    IF i > Len(ws) THEN [cpu |-> cpu, mem |-> mem]
    ELSE LET out == OutcomeOf(ws[i].ns, ws[i].d)
         IN  TotalsOver(ws, i + 1, cpu + out.cpuSave, mem + out.memSave)

\* the container and the replica count a row is about
RowDeployment(row) == Catalog[row.deployment].deployment
RowContainer(row) ==
    LET cs == RowDeployment(row).containers
    IN  cs[CHOOSE i \in DOMAIN cs : cs[i].name = row.container]

\* a row's delta for a signal, times the replicas of its workload
RowDelta(row, sig) == DeltaOf(RowContainer(row), row, sig) * RowDeployment(row).replicas
SumOfDeltas(rows, field) ==
    LET sig == CHOOSE x \in Signals : x.field = field
    IN  SumSeq([i \in DOMAIN rows |-> RowDelta(rows[i], sig)])

Define(pod, c, sig) == [Pod |-> pod.name, Container |-> c.name, Message |-> "Define " \o sig.text]

\* C9: a signal the container's spec does not set is marked as absent, "Define
\* ..." among the suggestions of the pod and "<nil>" in the row, with or
\* without a sample for it; a signal that is set, to zero included, is shown
\* with its value and never as absent; and the pass goes on to the next
\* workload.
C9_AbsentIsMarked ==
    [][/\ (pc = "queryPod" /\ pc' # "returned")
            => \A i \in DOMAIN pods[podIdx].containers : \A sig \in Signals :
                  LET c == pods[podIdx].containers[i]
                  IN  Define(pods[podIdx], c, sig) \in Range(suggestions') <=> ~Present(c, sig)
       /\ pc = "analyze"
            => /\ err' = NoError
               /\ pc' \in {"listReplicaSets", "listDeployments", "render"}
               /\ \A i \in DOMAIN deployment.containers : \A sig \in Signals :
                     LET c == deployment.containers[i]
                     IN  NewRow(i)[sig.field].cur =
                            (IF Present(c, sig) THEN QuantityString(ListOf(c, sig)[sig.resource], sig.resource) ELSE Nil)
               /\ \A i \in DOMAIN deployment.containers : \A sig \in Signals :
                     Present(deployment.containers[i], sig) => NewRow(i)[sig.field].cur # Nil]_vars

C9_Witness ==
    /\ pc = "render"
    /\ \E i \in DOMAIN data : data[i].reqCPU.cur = Nil /\ data[i].reqCPU.rec > 0
    /\ \E i \in DOMAIN data : data[i].reqMem.cur = Nil /\ data[i].reqMem.rec = 0
    /\ \E i \in DOMAIN data : data[i].limCPU.cur = "0"
    /\ \E i \in DOMAIN suggestions : suggestions[i].Message = "Define Memory Requests"
    /\ \E i \in DOMAIN suggestions : suggestions[i].Message = "Increase CPU Limits"

\* the workloads done when the pass is where it is
Done ==
    CASE pc = "start" -> [ns |-> 0, dep |-> 0]
      [] pc = "listDeployments" -> [ns |-> nsIdx - 1, dep |-> 0]
      [] pc \in {"listReplicaSets", "findReplicaset", "listPods", "queryPod", "analyze"}
            -> [ns |-> nsIdx - 1, dep |-> depIdx - 1]
      [] OTHER -> [ns |-> Len(namespaces), dep |-> 0]

\* the rows of a whole pass: those of each workload, in the order Run walks them
ExpectedRows == Flatten([i \in DOMAIN Processed |-> OutcomeOf(Processed[i].ns, Processed[i].d).data])

\* C10: the rows are, in the order of the namespace argument (a namespace
\* named twice is walked twice), then of the deployment listing, then of the
\* containers of the pod template, one row per container; a row once appended
\* stays where it is; the table printed is that sequence, which the cluster
\* and the argument determine.
C10_RowsInWalkOrder ==
    /\ [](err = NoError => RowKeys(data) = ExpectedKeys(Done.ns, Done.dep))
    /\ [](pc = "render" => data = ExpectedRows)
    /\ [](stdout # <<>> => SubSeq(stdout, 1, Len(stdout) - 1) = data)
    /\ [][Len(data') >= Len(data) /\ SubSeq(data', 1, Len(data)) = data]_vars

C10_Witness ==
    /\ pc = "exited"
    /\ exitCode = 0
    /\ Len(namespaces) = 2
    /\ namespaces[1] = namespaces[2]
    /\ Len(ListDeploymentsIn(namespaces[1])) = 2
    /\ Len(data) >= 6
    /\ SubSeq(stdout, 1, Len(stdout) - 1) = data

\* ---- the metrics queries of one workload ----
\* the calls issued since the pods of the current workload were listed
LastListPods ==
    CHOOSE i \in DOMAIN calls :
        calls[i].call = "listPods" /\ \A j \in DOMAIN calls : calls[j].call = "listPods" => j <= i
QueryCallsOfWorkload == SubSeq(calls, LastListPods + 1, Len(calls))

\* the four queries of one pod, in the order queryPrometheusForPod issues them
QueriesOfPod(pod) == [q \in DOMAIN Queries |-> [call |-> Queries[q], namespace |-> namespace, target |-> pod.name]]

LimitSignals == {sig \in Signals : sig.method = "limit"}

\* the maximum the backend holds for a pod's container, in the unit of the
\* recommendation (millicores, MiB)
PodMaximum(pod, name, sig) ==
    IF sig.resource = ResourceCPU THEN pod.usage[name].cpuMax ELSE pod.usage[name].memMax

\* C12, as stated: the limit a row recommends covers the margin times the
\* maximum observed on every single pod of the replica group, for CPU and for
\* memory, also when the pods' maxima differ.
C12_LimitCoversEveryPod ==
    [][pc = "analyze" =>
         \A i \in DOMAIN deployment.containers : \A sig \in LimitSignals : \A p \in DOMAIN pods :
            LET name == deployment.containers[i].name
            IN  name \in DOMAIN pods[p].usage
                  => NewRow(i)[sig.field].rec * SampleScale
                        >= PodMaximum(pods[p], name, sig) * LimitFactorTimes10]_vars

\* ---- the statistics the configuration names ----
\* a decimal of Options, in tenths
Tenths == ("0.5" :> 5) @@ ("0.9" :> 9) @@ ("1.2" :> 12) @@ ("1.5" :> 15)

\* quantile_over_time(phi, range) for phi in tenths, as a fraction: the sorted
\* samples interpolated linearly around rank phi * (n - 1)
quantile_over_time(phi, window) ==
    LET sorted == SortSeq(window, LAMBDA x, y : x < y)
        rank == phi * (Len(window) - 1)
        lower == rank \div 10
        upper == IF lower + 1 < Len(window) THEN lower + 1 ELSE lower
        weight == rank % 10
    IN  [num |-> 10 * sorted[lower + 1] + weight * (sorted[upper + 1] - sorted[lower + 1]), den |-> 10]

\* the pods of the current deployment that run a container of this name
PodsWith(name) == SelectSeq(pods, LAMBDA p : name \in DOMAIN p.usage)

\* the range a query of the signal reads for a container of a pod
WindowOf(pod, name, sig) ==
    IF sig.resource = ResourceCPU THEN Window(pod.usage[name].cpuAvg, pod.usage[name].cpuMax)
    ELSE Window(pod.usage[name].memAvg, pod.usage[name].memMax)

\* the statistic the configuration asks of a signal, as a fraction: the
\* quantile o.Quantile for a request, the maximum times o.LimitMargin for a limit
ConfiguredStatistic(pod, name, sig) ==
    IF sig.method = "request" THEN quantile_over_time(Tenths[Quantile], WindowOf(pod, name, sig))
    ELSE [num |-> max_over_time(WindowOf(pod, name, sig)) * Tenths[LimitMargin], den |-> 10]

\* C13, as stated: for every container, the value a pod contributes before
\* rounding (with one pod, the pre-rounding recommendation itself) is the
\* configured quantile of the window's samples for a request, not their mean,
\* and the window's maximum times the configured margin for a limit.
C13_FollowsConfiguration ==
    pc = "analyze" =>
        \A sig \in Signals : \A name \in DOMAIN SamplesOf(sig) : \A k \in DOMAIN SamplesOf(sig)[name] :
            LET want == ConfiguredStatistic(PodsWith(name)[k], name, sig)
            IN  SamplesOf(sig)[name][k] * want.den = want.num

\* the query of a signal
QueryOf(sig) ==
    CASE sig.field = "reqCPU" -> "podCPURequest"
      [] sig.field = "reqMem" -> "podMemoryRequest"
      [] sig.field = "limCPU" -> "podCPULimit"
      [] sig.field = "limMem" -> "podMemoryLimit"

\* ---- the pods measured for a deployment ----
\* the pods the queries of the current deployment name
QueriedPods == {QueryCallsOfWorkload[i].target : i \in DOMAIN QueryCallsOfWorkload}

\* the pods of the namespace argument that carry every label of a selector
Matching(selector) == {pod \in Range(ListIn(namespace, "pods")) : selector \subseteq pod.labels}

\* pods of the deployment that are not pods of the replica set returned
Stragglers == Matching(deployment.selector) \ Matching(replicaset.selector)

NameCollisions ==
    {i \in DOMAIN data :
        /\ data[i].container \in DOMAIN totalRequestCPU
        /\ <<data[i].namespace, data[i].deployment>> # <<namespace, deployment.name>>
        /\ data[i].reqCPU.rec # 0}

\* C15: the sample maps belong to one deployment: they are empty when the
\* processing of a deployment starts (its pods are listed), and the rows and
\* the savings a deployment adds are those of its own pods' samples, whatever
\* deployments came before it and whatever their containers are called.
C15_SamplesScopedToWorkload ==
    [][/\ (pc = "listPods" /\ pc' \in {"queryPod", "analyze"}) =>
             /\ totalRequestCPU' = EmptyMap /\ totalRequestMem' = EmptyMap
             /\ totalLimitCPU' = EmptyMap /\ totalLimitMem' = EmptyMap
       /\ pc = "analyze" =>
             LET own == OutcomeOf(namespace, deployment)
             IN  /\ data' = data \o own.data
                 /\ totalCPUSave' = totalCPUSave + own.cpuSave
                 /\ totalMemSave' = totalMemSave + own.memSave]_vars

C15_Witness ==
    /\ pc = "analyze"
    /\ depIdx + nsIdx > 2
    /\ NameCollisions # {}
    /\ \E i \in NameCollisions : totalRequestCPU[data[i].container] # <<>>
====
